---- MODULE Spec2Model ----
(***************************************************************************)
(* Model of server/secret.go: Server.SecretNameToID, Server.Secret and     *)
(* Secret.Field.  The resource accessor (Server.accessResource) is an      *)
(* external collaborator: each call to it answers nondeterministically     *)
(* with response bytes or with an error.  One behaviour of the model is    *)
(* one call of one of the three methods; Server is passed by value and     *)
(* holds no state that a call changes.                                     *)
(***************************************************************************)
EXTENDS Integers, Sequences, FiniteSets, TLC

VARIABLES
    op,        \* the method that was called: "none", "Secret", "SecretNameToID", "Field"
    pc,        \* position in the method: "idle", "loop" (Secret, line 90), "done"
    arg,       \* the method's arguments
    secret,    \* Secret: the local *Secret (line 78), Nil before the decode
    index,     \* Secret: the loop variable of line 90 (1-based)
    u,         \* SecretNameToID: the decoded u.Records (line 48); Nil if not decoded
    requests,  \* accessResource calls made so far, in order, with their answers
    primary,   \* Secret: what json.Unmarshal left in *secret at line 81
    ret        \* the values the method returned (at pc = "done")

vars == <<op, pc, arg, secret, index, u, requests, primary, ret>>

----------------------------------------------------------------------------
(* Bounds of the model *)

\* longest Items array of a primary response / Fields of a Secret
MaxFields == 2

\* longest Records array of a search response
MaxRecords == 3

----------------------------------------------------------------------------
(* Values *)

\* Go's nil (error, *Secret) and a record's untouched zero value
Nil == [kind |-> "nil"]

\* const resource = "secrets"
resource == "secrets"

\* ids passed to Secret and decoded from responses
SecretIDs == {5, 7}

\* ID values of search records (0 is the zero value of a missing key)
RecordIDs == {0, 10, 11}

\* names passed to SecretNameToID
SecretNames == {"db-creds", "db creds"}

\* SecretField: the attributes the methods read or write, plus Filename
\* standing for the attributes they never touch
FieldNames == {"password", "notes"}
Slugs == {"password", "notes-file"}
ItemValues == {"p@ss", "<placeholder>"}
FileAttachmentIDs == {0, 42}

SecretFields ==
    [FieldName : FieldNames, Slug : Slugs, ItemValue : ItemValues,
     FileAttachmentID : FileAttachmentIDs, Filename : {"f.txt"}]

\* sequences over S of length at most n
SeqUpTo(S, n) == UNION {[1..k -> S] : k \in 0..n}

\* type Secret struct
Secrets ==
    [kind : {"Secret"}, Name : {"db-creds"}, ID : SecretIDs,
     Fields : SeqUpTo(SecretFields, MaxFields)]

\* new(Secret): every attribute at its zero value
ZeroSecret == [kind |-> "Secret", Name |-> "", ID |-> 0, Fields |-> <<>>]

\* errors the accessor can answer with
AccessorErrors ==
    {[kind |-> "accessor", msg |-> "401 Unauthorized"],
     [kind |-> "accessor", msg |-> "connection refused"]}

\* Response bytes.  "raw": bytes that are no JSON document; "badtype": a JSON
\* document with a value of the wrong type for its key; "secret": a JSON
\* object of the secret shape (key Items; ItemsNull when it is absent or
\* null); "search": a JSON object of the search shape (key Records likewise).
RawBodies ==
    {[kind |-> "raw", text |-> "hello world"],
     [kind |-> "raw", text |-> "<placeholder>"]}

BadTypeBody == [kind |-> "badtype"]

SecretBodies ==
    {b \in [kind : {"secret"}, Name : {"db-creds"}, ID : SecretIDs,
            ItemsNull : BOOLEAN, Items : SeqUpTo(SecretFields, MaxFields)] :
        b.ItemsNull => b.Items = <<>>}

SearchRecords == [ID : RecordIDs, Name : {"db-creds"}]

SearchBodies ==
    {b \in [kind : {"search"}, RecordsNull : BOOLEAN,
            Records : SeqUpTo(SearchRecords, MaxRecords)] :
        b.RecordsNull => b.Records = <<>>}

\* what accessResource returns: (data, err)
Answer(data, err) == [data |-> data, err |-> err]

Answers(bodies) ==
    {Answer(d, Nil) : d \in bodies} \cup {Answer(Nil, e) : e \in AccessorErrors}

\* fmt.Errorf: an error with no distinguished type
Errorf(msg) == [kind |-> "error", msg |-> msg]

----------------------------------------------------------------------------
(* Conversions *)

\* strconv.Itoa(id), and %d of fmt.Sprintf
Itoa(id) == ToString(id)

\* string(data): the bytes of an attachment response taken as text
BytesToString(data) == data.text

\* url.QueryEscape on the names of SecretNames: a space becomes "+"
QueryEscape(name) == IF name = "db creds" THEN "db+creds" ELSE name

\* url.Values{...}.Encode(): keys in sorted order, values escaped
EncodeFilter(name) ==
    "filter.doNotCalculateTotal=true&filter.searchFieldSlug=name&filter.searchText="
        \o QueryEscape(name)

\* json.Unmarshal(data, secret): [err, value], value being what is left in
\* *secret.  The wire key Items fills Fields; an absent or null Items leaves
\* Fields at its zero value.  A document that is no JSON leaves *secret
\* untouched; a value of the wrong type is reported after the rest is decoded.
UnmarshalSecret(data) ==
    CASE data.kind = "raw" ->
            [err |-> "invalid character looking for beginning of value",
             value |-> ZeroSecret]
      [] data.kind = "badtype" ->
            [err |-> "json: cannot unmarshal number into Go struct field",
             value |-> ZeroSecret]
      [] data.kind = "secret" ->
            [err |-> "",
             value |-> [kind |-> "Secret", Name |-> data.Name, ID |-> data.ID,
                        Fields |-> IF data.ItemsNull THEN <<>> ELSE data.Items]]

\* json.Unmarshal(data, &u): [err, Records]
UnmarshalSearch(data) ==
    CASE data.kind = "raw" ->
            [err |-> "invalid character looking for beginning of value",
             Records |-> <<>>]
      [] data.kind = "badtype" ->
            [err |-> "json: cannot unmarshal number into Go struct field",
             Records |-> <<>>]
      [] data.kind = "search" ->
            [err |-> "",
             Records |-> IF data.RecordsNull THEN <<>> ELSE data.Records]

----------------------------------------------------------------------------
(* Server.SecretNameToID *)

\* RecordIDsOf with the ids appended to the slice make already sized
RecordIDsAppended(records) ==
    [i \in 1..(2 * Len(records)) |->
        IF i <= Len(records) THEN 0 ELSE records[i - Len(records)].ID]

\* ids[i] = r.ID for i, r := range u.Records
RecordIDsOf(records) == [i \in DOMAIN records |-> records[i].ID]

\* MultipleSecretsFoundError{IDs: ids, searchedName: name}
MultipleSecretsFoundError(ids, name) ==
    [kind |-> "MultipleSecretsFoundError", IDs |-> ids, searchedName |-> name]

\* Disambiguate with the first case taken from one record on
DisambiguateFromOne(records, name) ==
    CASE Len(records) >= 1 ->
            [id |-> 0, err |-> MultipleSecretsFoundError(RecordIDsOf(records), name)]
      [] OTHER ->
            [id |-> 0, err |-> Errorf("no secrets found with name '" \o name \o "'")]

\* Disambiguate with the first case taken whenever there is not one record
DisambiguateNotOne(records, name) ==
    CASE Len(records) # 1 ->
            [id |-> 0, err |-> MultipleSecretsFoundError(RecordIDsOf(records), name)]
      [] OTHER ->
            [id |-> records[1].ID, err |-> Nil]

\* the switch on len(u.Records): the (int, error) returned
Disambiguate(records, name) ==
    CASE Len(records) > 1 ->
            [id |-> 0, err |-> MultipleSecretsFoundError(RecordIDsOf(records), name)]
      [] Len(records) < 1 ->
            [id |-> 0, err |-> Errorf("no secrets found with name '" \o name \o "'")]
      [] OTHER ->
            [id |-> records[1].ID, err |-> Nil]

\* the (int, error) SecretNameToID returns on the accessor's answer
SecretNameToIDResult(name, answer) ==
    IF answer.err = Nil
    THEN LET dec == UnmarshalSearch(answer.data)
         IN  IF dec.err # ""
             THEN [id |-> 0, err |-> Errorf("unmarshaling response: " \o dec.err)]
             ELSE Disambiguate(dec.Records, name)
    ELSE [id |-> 0,
          err |-> Errorf("accessing resource " \o resource \o ": " \o answer.err.msg)]

\* one accessResource("GET", resource, path, nil) call and its answer;
\* field is the index of the Secret field it was made for, 0 for none
Request(path, field, answer) ==
    [method |-> "GET", resource |-> resource, path |-> path,
     field |-> field, answer |-> answer]

\* what the accessor can answer to the search request
SearchAnswers == Answers(RawBodies \cup {BadTypeBody} \cup SearchBodies)

SecretNameToID ==
    /\ pc = "idle"
    /\ \E name \in SecretNames : \E answer \in SearchAnswers :
        /\ op' = "SecretNameToID"
        /\ arg' = [name |-> name]
        /\ requests' = <<Request("?" \o EncodeFilter(name), 0, answer)>>
        /\ u' = IF answer.err = Nil /\ UnmarshalSearch(answer.data).err = ""
                THEN [Records |-> UnmarshalSearch(answer.data).Records]
                ELSE Nil
        /\ ret' = SecretNameToIDResult(name, answer)
    /\ pc' = "done"
    /\ UNCHANGED <<secret, index, primary>>

----------------------------------------------------------------------------
(* Secret.Field *)

\* FieldFrom as two scans, every FieldName before any Slug
FieldFromNameFirst(fields, i, fieldName) ==
    LET byName == {j \in i..Len(fields) : fieldName = fields[j].FieldName}
        bySlug == {j \in i..Len(fields) : fieldName = fields[j].Slug}
        Least(S) == CHOOSE j \in S : \A k \in S : j <= k
    IN  IF byName # {} THEN [value |-> fields[Least(byName)].ItemValue, found |-> TRUE]
        ELSE IF bySlug # {} THEN [value |-> fields[Least(bySlug)].ItemValue, found |-> TRUE]
        ELSE [value |-> "", found |-> FALSE]

\* FieldFrom with the comparison against Slug left out
FieldFromNameOnly(fields, i, fieldName) ==
    LET byName == {j \in i..Len(fields) : fieldName = fields[j].FieldName}
        Least(S) == CHOOSE j \in S : \A k \in S : j <= k
    IN  IF byName # {} THEN [value |-> fields[Least(byName)].ItemValue, found |-> TRUE]
        ELSE [value |-> "", found |-> FALSE]

\* the scan of s.Fields from position i on: (ItemValue, true) of the first
\* field whose FieldName or Slug is fieldName, ("", false) past the end
RECURSIVE FieldFrom(_, _, _)
FieldFrom(fields, i, fieldName) ==
    IF i > Len(fields)
    THEN [value |-> "", found |-> FALSE]
    ELSE IF fieldName = fields[i].FieldName \/ fieldName = fields[i].Slug
         THEN [value |-> fields[i].ItemValue, found |-> TRUE]
         ELSE FieldFrom(fields, i + 1, fieldName)

\* names Field is asked for: every FieldName and Slug, one in another case,
\* one that no field has
LookupNames == FieldNames \cup Slugs \cup {"Password", "nonexistent"}

Field ==
    /\ pc = "idle"
    /\ \E s \in Secrets : \E fieldName \in LookupNames :
        /\ op' = "Field"
        /\ arg' = [s |-> s, fieldName |-> fieldName]
        /\ ret' = FieldFrom(s.Fields, 1, fieldName)
    /\ pc' = "done"
    /\ UNCHANGED <<secret, index, u, requests, primary>>

----------------------------------------------------------------------------
(* Server.Secret *)

\* HasAttachment with the test dropped: every field is fetched
HasAttachmentAlways(element) == TRUE

\* element.FileAttachmentID != 0
HasAttachment(element) == element.FileAttachmentID # 0

\* fmt.Sprintf("%d/fields/%s", id, element.Slug)
AttachmentPath(id, element) == Itoa(id) \o "/fields/" \o element.Slug

\* Substitute writing to the loop's copy: element.ItemValue = string(data)
SubstituteInCopy(s, i, data) == s

\* secret.Fields[index].ItemValue = string(data)
Substitute(s, i, data) ==
    [s EXCEPT !.Fields[i].ItemValue = BytesToString(data)]

\* PrimaryReturn handing out the secret allocated at line 78 with the error
PrimaryReturnWithSecret(id, answer) ==
    IF answer.err = Nil
    THEN IF UnmarshalSecret(answer.data).err # ""
         THEN [secret |-> UnmarshalSecret(answer.data).value,
               err |-> Errorf("parsing response from /" \o resource \o "/"
                                \o Itoa(id) \o ": " \o UnmarshalSecret(answer.data).err)]
         ELSE Nil
    ELSE [secret |-> ZeroSecret, err |-> answer.err]

\* the first accessResource call and the decode (lines 80-86): the values
\* returned if the method ends here, else Nil
PrimaryReturn(id, answer) ==
    IF answer.err = Nil
    THEN LET dec == UnmarshalSecret(answer.data)
         IN  IF dec.err # ""
             THEN [secret |-> Nil,
                   err |-> Errorf("parsing response from /" \o resource \o "/"
                                    \o Itoa(id) \o ": " \o dec.err)]
             ELSE Nil
    ELSE [secret |-> Nil, err |-> answer.err]

\* AttachmentFailed returning the secret as far as it was resolved
AttachmentFailedPartial(s, answer) == [secret |-> s, err |-> answer.err]

\* the else branch of the attachment call (line 97)
AttachmentFailed(s, answer) == [secret |-> Nil, err |-> answer.err]

\* AfterAttachment going on with the next field after a failure
AfterAttachmentContinue(answer) == "loop"

\* the position after the attachment call of field i was answered
AfterAttachment(answer) == IF answer.err = Nil THEN "loop" ELSE "done"

\* what the accessor can answer to the request for the secret
PrimaryAnswers == Answers(RawBodies \cup {BadTypeBody} \cup SecretBodies)

\* what the accessor can answer to the request for an attachment
AttachmentAnswers == Answers(RawBodies)

\* lines 78-86: the request for the secret and the decode
SecretCall ==
    /\ pc = "idle"
    /\ \E id \in SecretIDs : \E answer \in PrimaryAnswers :
        /\ op' = "Secret"
        /\ arg' = [id |-> id]
        /\ requests' = <<Request(Itoa(id), 0, answer)>>
        /\ LET r == PrimaryReturn(id, answer)
           IN  IF r = Nil
               THEN /\ secret' = UnmarshalSecret(answer.data).value
                    /\ primary' = UnmarshalSecret(answer.data).value
                    /\ index' = 1
                    /\ pc' = "loop"
                    /\ ret' = ret
               ELSE /\ ret' = r
                    /\ pc' = "done"
                    /\ UNCHANGED <<secret, primary, index>>
    /\ UNCHANGED u

\* one iteration of the loop on a field that has an attachment
SecretAttachment ==
    /\ pc = "loop"
    /\ index <= Len(secret.Fields)
    /\ HasAttachment(secret.Fields[index])
    /\ \E answer \in AttachmentAnswers :
        /\ requests' = Append(requests,
                Request(AttachmentPath(arg.id, secret.Fields[index]), index, answer))
        /\ pc' = AfterAttachment(answer)
        /\ IF answer.err = Nil
           THEN /\ secret' = Substitute(secret, index, answer.data)
                /\ ret' = ret
           ELSE /\ ret' = AttachmentFailed(secret, answer)
                /\ secret' = secret
    /\ index' = index + 1
    /\ UNCHANGED <<op, arg, u, primary>>

\* one iteration of the loop on a field that has none
SecretSkip ==
    /\ pc = "loop"
    /\ index <= Len(secret.Fields)
    /\ ~HasAttachment(secret.Fields[index])
    /\ index' = index + 1
    /\ UNCHANGED <<op, pc, arg, secret, u, requests, primary, ret>>

\* return secret, nil
SecretReturn ==
    /\ pc = "loop"
    /\ index > Len(secret.Fields)
    /\ ret' = [secret |-> secret, err |-> Nil]
    /\ pc' = "done"
    /\ UNCHANGED <<op, arg, secret, index, u, requests, primary>>

----------------------------------------------------------------------------
(* Specification *)

Init ==
    /\ op = "none"
    /\ pc = "idle"
    /\ arg = Nil
    /\ secret = Nil
    /\ index = 0
    /\ u = Nil
    /\ requests = <<>>
    /\ primary = Nil
    /\ ret = Nil

Next ==
    \/ SecretNameToID
    \/ Field
    \/ SecretCall
    \/ SecretAttachment
    \/ SecretSkip
    \/ SecretReturn

Spec == Init /\ [][Next]_vars

----------------------------------------------------------------------------
(* Properties *)

\* Secret(id) has returned (secret, nil)
SecretSucceeded == op = "Secret" /\ pc = "done" /\ ret.err = Nil

\* SecretNameToID has returned after decoding the search response
SearchDecoded == op = "SecretNameToID" /\ pc = "done" /\ u # Nil

\* the positions of the fields that have an attachment
AttachmentIndices(fields) == {i \in DOMAIN fields : fields[i].FileAttachmentID # 0}

\* the same positions, as a sequence in increasing order
AttachmentOrder(fields) ==
    SelectSeq([i \in 1..Len(fields) |-> i],
              LAMBDA i : fields[i].FileAttachmentID # 0)

\* the positions of the fields of s that fieldName names
Matches(s, fieldName) ==
    {i \in DOMAIN s.Fields :
        s.Fields[i].FieldName = fieldName \/ s.Fields[i].Slug = fieldName}

\* C1: whenever Secret(id) returns a Secret without error, every field of it
\* whose FileAttachmentID is not 0 has as ItemValue the bytes the accessor
\* answered to the request for the path "{id}/fields/{slug of the field}".
C1_AttachmentSubstituted ==
    SecretSucceeded =>
        \A i \in AttachmentIndices(ret.secret.Fields) :
            \E k \in DOMAIN requests :
                /\ requests[k].field = i
                /\ requests[k].path =
                       ToString(arg.id) \o "/fields/" \o ret.secret.Fields[i].Slug
                /\ requests[k].answer.err = Nil
                /\ ret.secret.Fields[i].ItemValue = requests[k].answer.data.text

\* C1 witness: a placeholder of the primary response was replaced by the
\* attachment's bytes in the Secret returned.
C1_Witness ==
    /\ SecretSucceeded
    /\ \E i \in AttachmentIndices(ret.secret.Fields) :
        /\ primary.Fields[i].ItemValue = "<placeholder>"
        /\ ret.secret.Fields[i].ItemValue = "hello world"

\* C2: if the request for an attachment fails, Secret(id) has returned
\* exactly that error and a nil Secret, however many attachments were resolved
\* before; and a Secret is returned only with every attachment resolved.
C2_AttachmentFailureAborts ==
    op = "Secret" =>
        /\ \A k \in DOMAIN requests :
              (requests[k].field # 0 /\ requests[k].answer.err # Nil) =>
                  /\ pc = "done"
                  /\ ret = [secret |-> Nil, err |-> requests[k].answer.err]
        /\ (pc = "done" /\ ret.secret # Nil) =>
              \A i \in AttachmentIndices(primary.Fields) :
                  \E k \in DOMAIN requests :
                      requests[k].field = i /\ requests[k].answer.err = Nil

\* C2 witness: the second attachment failed after the first was resolved.
C2_Witness ==
    /\ op = "Secret" /\ pc = "done"
    /\ Len(requests) = 3
    /\ requests[2].answer.err = Nil
    /\ requests[3].answer.err # Nil
    /\ secret.Fields[1].ItemValue # primary.Fields[1].ItemValue
    /\ ret.secret = Nil

\* C3: when the search response decodes to exactly one record,
\* SecretNameToID(name) returns that record's ID and no error.
C3_OneRecordReturnsItsID ==
    (SearchDecoded /\ Len(u.Records) = 1) =>
        ret = [id |-> u.Records[1].ID, err |-> Nil]

\* C3 witness: one record with a non-zero ID was found.
C3_Witness ==
    /\ SearchDecoded /\ Len(u.Records) = 1
    /\ u.Records[1].ID = 11
    /\ ret.id = 11

\* C4: when the search response decodes to two or more records,
\* SecretNameToID(name) returns ID 0 and a MultipleSecretsFoundError whose IDs
\* are the records' IDs, one per record in response order, and whose
\* searchedName is the name passed in.
C4_ManyRecordsReturnAllIDs ==
    (SearchDecoded /\ Len(u.Records) >= 2) =>
        /\ ret.id = 0
        /\ ret.err.kind = "MultipleSecretsFoundError"
        /\ Len(ret.err.IDs) = Len(u.Records)
        /\ \A i \in DOMAIN u.Records : ret.err.IDs[i] = u.Records[i].ID
        /\ ret.err.searchedName = arg.name

\* C4 witness: three records, two of them with the same ID.
C4_Witness ==
    /\ SearchDecoded
    /\ arg.name = "db-creds"
    /\ Len(u.Records) = 3
    /\ ret.err.kind = "MultipleSecretsFoundError"
    /\ ret.err.IDs = <<10, 11, 10>>

\* C5: when the search response decodes to zero records, SecretNameToID(name)
\* returns ID 0 and the plain error "no secrets found with name '<name>'";
\* every decoded response has exactly the outcome of its record count: an ID
\* without error for one record, the plain error for none, a
\* MultipleSecretsFoundError for two or more.
C5_NoRecordIsPlainError ==
    SearchDecoded =>
        /\ Len(u.Records) = 0 =>
              ret = [id |-> 0,
                     err |-> [kind |-> "error",
                              msg |-> "no secrets found with name '"
                                        \o arg.name \o "'"]]
        /\ (ret.err = Nil) <=> (Len(u.Records) = 1)
        /\ (ret.err.kind = "error") <=> (Len(u.Records) = 0)
        /\ (ret.err.kind = "MultipleSecretsFoundError") <=> (Len(u.Records) >= 2)

\* C5 witness: a decoded response without records gave the plain error.
C5_Witness ==
    /\ SearchDecoded
    /\ Len(u.Records) = 0
    /\ ret.err.kind = "error"

\* C6: if some field has FieldName or Slug equal to fieldName,
\* Field(fieldName) returns the ItemValue of the lowest-index such field and
\* true, whichever of the two attributes each field matches by.
C6_FirstMatchWins ==
    (op = "Field" /\ pc = "done" /\ Matches(arg.s, arg.fieldName) # {}) =>
        \E i \in Matches(arg.s, arg.fieldName) :
            /\ \A j \in Matches(arg.s, arg.fieldName) : i <= j
            /\ ret = [value |-> arg.s.Fields[i].ItemValue, found |-> TRUE]

\* C6 witness: the first field matches by Slug only, a later one by FieldName,
\* they hold different values and the first one's was returned.
C6_Witness ==
    /\ op = "Field" /\ pc = "done"
    /\ Len(arg.s.Fields) = 2
    /\ arg.s.Fields[1].Slug = arg.fieldName
    /\ arg.s.Fields[1].FieldName # arg.fieldName
    /\ arg.s.Fields[2].FieldName = arg.fieldName
    /\ arg.s.Fields[1].ItemValue # arg.s.Fields[2].ItemValue
    /\ ret.value = arg.s.Fields[1].ItemValue

\* C7: if fieldName is neither the FieldName nor the Slug of any field,
\* Field(fieldName) returns ("", false); found is true exactly when some
\* field matches.
C7_NoMatchIsNotFound ==
    (op = "Field" /\ pc = "done") =>
        /\ Matches(arg.s, arg.fieldName) = {} => ret = [value |-> "", found |-> FALSE]
        /\ ret.found <=> (Matches(arg.s, arg.fieldName) # {})

\* C7 witness: a name that differs from a FieldName only in case was not found
\* in a Secret that has fields.
C7_Witness ==
    /\ op = "Field" /\ pc = "done"
    /\ arg.fieldName = "Password"
    /\ \E i \in DOMAIN arg.s.Fields : arg.s.Fields[i].FieldName = "password"
    /\ ret = [value |-> "", found |-> FALSE]

\* C8: the requests of one Secret(id) call are the request for "{id}" and
\* then one request per field with an attachment, in increasing field index,
\* none twice for the same field; each is made only after every earlier one
\* was answered without error, so none follows a failed one.
C8_RequestsInFieldOrder ==
    op = "Secret" =>
        /\ Len(requests) >= 1
        /\ requests[1].field = 0
        /\ requests[1].path = ToString(arg.id)
        /\ \A k \in DOMAIN requests :
              requests[k].method = "GET" /\ requests[k].resource = "secrets"
        /\ \A k \in 1..(Len(requests) - 1) : requests[k].answer.err = Nil
        /\ primary = Nil => Len(requests) = 1
        /\ primary # Nil =>
              LET order == AttachmentOrder(primary.Fields)
                  n == Len(requests) - 1
              IN  /\ n <= Len(order)
                  /\ \A k \in 1..n :
                        /\ requests[k + 1].field = order[k]
                        /\ requests[k + 1].path =
                              ToString(arg.id) \o "/fields/"
                                  \o primary.Fields[order[k]].Slug
                  /\ SecretSucceeded => n = Len(order)

\* C8 witness: two attachments were requested, the second after the first
\* was answered, and the second failed.
C8_Witness ==
    /\ op = "Secret" /\ pc = "done"
    /\ Len(requests) = 3
    /\ requests[2].field = 1 /\ requests[2].answer.err = Nil
    /\ requests[3].field = 2 /\ requests[3].answer.err # Nil

\* C9: a successful Secret(id) returns what the primary response decoded to,
\* except for the ItemValue of the fields with an attachment: the fields are
\* as many and in the same order, every other attribute is the same, and a
\* field with FileAttachmentID 0 keeps its ItemValue and has no request.
C9_OnlyAttachmentValuesChange ==
    SecretSucceeded =>
        /\ [ret.secret EXCEPT !.Fields = primary.Fields] = primary
        /\ Len(ret.secret.Fields) = Len(primary.Fields)
        /\ \A i \in DOMAIN primary.Fields :
              /\ [ret.secret.Fields[i] EXCEPT
                     !.ItemValue = primary.Fields[i].ItemValue] = primary.Fields[i]
              /\ primary.Fields[i].FileAttachmentID = 0 =>
                    /\ ret.secret.Fields[i] = primary.Fields[i]
                    /\ \A k \in DOMAIN requests : requests[k].field # i

\* C9 witness: a field without attachment came back unchanged next to one
\* whose attachment was substituted.
C9_Witness ==
    /\ SecretSucceeded
    /\ Len(requests) = 2
    /\ \E i, j \in DOMAIN primary.Fields :
        /\ primary.Fields[i].FileAttachmentID = 0
        /\ ret.secret.Fields[i].ItemValue = "p@ss"
        /\ primary.Fields[j].FileAttachmentID # 0
        /\ ret.secret.Fields[j].ItemValue # primary.Fields[j].ItemValue

\* C10: if the primary request fails, Secret returns that error unchanged; if
\* its response cannot be decoded, a parsing error naming the resource and
\* id; either way with a nil Secret and no further request.  Secret and
\* SecretNameToID return an error only with a nil Secret or ID 0, Secret
\* returns a Secret when it returns no error, and SecretNameToID makes exactly
\* one request.
C10_ErrorsComeAlone ==
    /\ op = "Secret" =>
        /\ requests[1].answer.err # Nil =>
              /\ pc = "done"
              /\ Len(requests) = 1
              /\ ret = [secret |-> Nil, err |-> requests[1].answer.err]
        /\ (requests[1].answer.err = Nil /\ requests[1].answer.data.kind # "secret") =>
              /\ pc = "done"
              /\ Len(requests) = 1
              /\ ret.secret = Nil
              /\ ret.err.kind = "error"
              /\ ret.err.msg \in
                    {"parsing response from /secrets/" \o ToString(arg.id) \o ": " \o m :
                        m \in {"invalid character looking for beginning of value",
                               "json: cannot unmarshal number into Go struct field"}}
        /\ pc = "done" => ((ret.err # Nil) <=> (ret.secret = Nil))
    /\ (op = "SecretNameToID" /\ pc = "done") =>
        /\ ret.err # Nil => ret.id = 0
        /\ Len(requests) = 1

\* C10 witness: the primary response was no JSON and Secret returned the
\* parsing error.
C10_Witness ==
    /\ op = "Secret" /\ pc = "done"
    /\ requests[1].answer.err = Nil
    /\ requests[1].answer.data.kind = "raw"
    /\ ret.secret = Nil
    /\ ret.err.kind = "error"

====
